---- MODULE Spec2Model ----
(***************************************************************************)
(* Model of the Bocha web-search plugin (src/__init__.py): the shared      *)
(* configuration object and the coroutine search_ai, one frame per         *)
(* invocation the host runs.                                               *)
(*                                                                         *)
(* Text is a sequence of tokens.  Text that comes from outside (query,     *)
(* page fields, msg) is a sequence of one-character tokens; every literal  *)
(* piece of an f-string of the source is one token, written in ASCII and   *)
(* named after the source line that holds the literal.                     *)
(***************************************************************************)
EXTENDS Integers, Sequences, FiniteSets, TLC

(***************************************************************************)
(* Bounds of the model.                                                    *)
(***************************************************************************)
\* longest data.webPages.value list the provider returns in the model
MaxPages == 2
\* number of invocations the host runs concurrently in SpecConc
NumInv == 2

(***************************************************************************)
(* JSON / Python values: tagged records.                                   *)
(***************************************************************************)
Absent == [t |-> "absent"]
None == [t |-> "null"]
Str(s) == [t |-> "str", v |-> s]
Num(n) == [t |-> "int", v |-> n]
List(xs) == [t |-> "list", v |-> xs]
Obj(f) == [t |-> "obj", v |-> f]

\* an object literal from a field assignment in which Absent marks a missing key
MkObj(f) == Obj([k \in {x \in DOMAIN f : f[x] # Absent} |-> f[k]])

\* Python type names, as they appear in exception texts
TypeName(x) ==
  CASE x.t = "null" -> "NoneType"
    [] x.t = "str" -> "str"
    [] x.t = "int" -> "int"
    [] x.t = "list" -> "list"
    [] OTHER -> "dict"

\* Python truthiness (the `not x` / `x or y` tests)
Truthy(x) ==
  CASE x.t = "null" -> FALSE
    [] x.t = "str" -> x.v # <<>>
    [] x.t = "int" -> x.v # 0
    [] x.t = "list" -> x.v # <<>>
    [] OTHER -> DOMAIN x.v # {}

\* key in d, for a dict d
HasKey(x, key) == x.t = "obj" /\ key \in DOMAIN x.v

\* dict.get(key, default)
Get(d, key, default) == IF key \in DOMAIN d.v THEN d.v[key] ELSE default

(***************************************************************************)
(* Text helpers.                                                           *)
(***************************************************************************)
Digit == <<"0", "1", "2", "3", "4", "5", "6", "7", "8", "9">>

RECURSIVE IntToStr(_)
\* str(n) for n >= 0
IntToStr(n) ==
  IF n < 10 THEN <<Digit[n + 1]>>
  ELSE IntToStr(n \div 10) \o <<Digit[(n % 10) + 1]>>

Whitespace == {" ", "\t", "\n", "\r"}

RECURSIVE LStrip(_, _)
LStrip(s, chars) ==
  IF s # <<>> /\ Head(s) \in chars THEN LStrip(Tail(s), chars) ELSE s

RECURSIVE RStrip(_, _)
\* str.rstrip(chars)
RStrip(s, chars) ==
  IF s # <<>> /\ s[Len(s)] \in chars THEN RStrip(SubSeq(s, 1, Len(s) - 1), chars)
  ELSE s

\* str.strip()
Strip(s) == RStrip(LStrip(s, Whitespace), Whitespace)

\* the text an f-string puts for a value: str(x)
Fmt(x) ==
  CASE x.t = "str" -> x.v
    [] x.t = "int" -> IntToStr(x.v)
    [] x.t = "null" -> <<"None">>
    [] OTHER -> <<"<repr>">>

RECURSIVE Join(_, _)
\* sep.join(parts)
Join(parts, sep) ==
  IF parts = <<>> THEN <<>>
  ELSE IF Len(parts) = 1 THEN parts[1]
  ELSE parts[1] \o sep \o Join(Tail(parts), sep)

(***************************************************************************)
(* Exceptions.                                                             *)
(***************************************************************************)
\* the base class of each exception class (Python builtins and httpx)
Parent(cls) ==
  CASE cls = "HTTPStatusError" -> "HTTPError"
    [] cls = "ReadTimeout" -> "TransportError"
    [] cls = "ConnectError" -> "TransportError"
    [] cls = "TransportError" -> "HTTPError"
    [] cls = "HTTPError" -> "Exception"
    [] cls = "JSONDecodeError" -> "ValueError"
    [] cls = "ValueError" -> "Exception"
    [] cls = "AttributeError" -> "Exception"
    [] cls = "TypeError" -> "Exception"
    [] cls = "KeyError" -> "LookupError"
    [] cls = "LookupError" -> "Exception"
    [] cls = "Exception" -> "BaseException"
    [] OTHER -> "object"

RECURSIVE IsSubclass(_, _)
IsSubclass(cls, base) ==
  IF cls = base THEN TRUE
  ELSE IF cls = "object" THEN FALSE
  ELSE IsSubclass(Parent(cls), base)

Exc(cls, text) == [cls |-> cls, text |-> text]

AttributeError(x, attr) ==
  Exc("AttributeError", <<"'", TypeName(x), "' object has no attribute '", attr, "'">>)

NotIterable(x) == Exc("TypeError", <<"'", TypeName(x), "' object is not iterable">>)

\* what a block of code ends with
Return(s) == [kind |-> "return", value |-> s]
Raise(e) == [kind |-> "raise", exc |-> e]
NoResult == [kind |-> "none"]

(***************************************************************************)
(* The literals of search_ai, one token per literal piece.                 *)
(***************************************************************************)
\* line 62: "插件配置不完整，请前往插件设置填写 API_KEY。"
MsgConfigIncomplete == <<"Plugin configuration incomplete, fill in API_KEY.">>
\* line 66: "/web-search"
WebSearchPath == <<"/web-search">>
\* line 87: "博查 API 返回错误: "
ProviderErrorPrefix == <<"Bocha API returned error: ">>
\* line 87: '未知错误'
UnknownMsg == <<"unknown error">>
\* line 94: "未能找到与“" ... "”相关的结果。"
NoResultsPrefix == <<"No results found for <">>
NoResultsSuffix == <<"> .">>
\* line 97: "为您找到关于“" ... "”的相关信息如下:\n"
HeaderPrefix == <<"Found for <">>
HeaderSuffix == <<"> the following:", "\n">>
\* line 99: '无标题', line 100: '无链接', line 101: '无摘要'
NoTitle == <<"no title">>
NoLink == <<"no link">>
NoSummary == <<"no summary">>
\* line 102: ". ", "\n   链接: ", "\n   摘要: ", "\n"
IndexDot == ". "
LinkLabel == "\n   link: "
SummaryLabel == "\n   summary: "
NL == "\n"
\* line 111: "搜索服务请求失败，状态码: " ... "。请检查您的网络或 API Key。"
HttpErrorPrefix == <<"Search request failed, status code: ">>
HttpErrorSuffix == <<". Check your network or API Key.">>
\* line 114: "搜索时遇到未知错误: "
UnknownErrorPrefix == <<"Unknown error during search: ">>

(***************************************************************************)
(* The body of search_ai after the request: lines 84-106.                  *)
(***************************************************************************)
\* line 84: response.json()
Json(body) ==
  IF body.valid THEN Return(body.doc)
  ELSE Raise(Exc("JSONDecodeError", <<"Expecting value: line 1 column 1 (char 0)">>))

\* a default that lets a missing code pass: response_data.get("code", 200) != 200
CodeOkByDefault(response_data) == Get(response_data, "code", Num(200)) = Num(200)

\* line 86: response_data.get("code") != 200, negated
CodeOk(response_data) == Get(response_data, "code", None) = Num(200)

\* subscripts in place of .get: response_data["data"]["webPages"]["value"]
WebPagesStrict(response_data) ==
  IF ~HasKey(response_data, "data") THEN Raise(Exc("KeyError", <<"'data'">>))
  ELSE IF ~HasKey(response_data.v["data"], "webPages")
    THEN Raise(Exc("KeyError", <<"'webPages'">>))
  ELSE IF ~HasKey(response_data.v["data"].v["webPages"], "value")
    THEN Raise(Exc("KeyError", <<"'value'">>))
  ELSE Return(response_data.v["data"].v["webPages"].v["value"])

\* line 91: response_data.get("data", {}).get("webPages", {}).get("value", [])
WebPages(response_data) ==
  LET data == Get(response_data, "data", Obj(<<>>)) IN
  IF data.t # "obj" THEN Raise(AttributeError(data, "get"))
  ELSE LET wp == Get(data, "webPages", Obj(<<>>)) IN
       IF wp.t # "obj" THEN Raise(AttributeError(wp, "get"))
       ELSE Return(Get(wp, "value", List(<<>>)))

\* the two keys swapped: page.get('snippet') or page.get('summary', '无摘要')
SnippetFirst(page) ==
  LET snippet == Get(page, "snippet", None) IN
  IF Truthy(snippet) THEN snippet ELSE Get(page, "summary", Str(NoSummary))

\* line 101: page.get('summary') or page.get('snippet', '无摘要')
Snippet(page) ==
  LET summary == Get(page, "summary", None) IN
  IF Truthy(summary) THEN summary ELSE Get(page, "snippet", Str(NoSummary))

\* lines 99-102: one iteration of the loop, for the i-th element of web_pages
PageBlock(i, page) ==
  IF page.t # "obj" THEN Raise(AttributeError(page, "get"))
  ELSE LET title == Get(page, "name", Str(NoTitle))
           url == Get(page, "url", Str(NoLink))
           snippet == Snippet(page)
       IN IF snippet.t # "str" THEN Raise(AttributeError(snippet, "strip"))
          ELSE Return(IntToStr(i) \o <<IndexDot>> \o Fmt(title) \o <<LinkLabel>>
                      \o Fmt(url) \o <<SummaryLabel>> \o Strip(snippet.v) \o <<NL>>)

\* a loop that walks the list from its end: enumerate(reversed(web_pages), 1)
ElementsReversed(web_pages) ==
  IF web_pages.t = "list"
    THEN [k \in 1..Len(web_pages.v) |-> web_pages.v[Len(web_pages.v) + 1 - k]]
    ELSE <<>>

\* line 98: the elements enumerate(web_pages, 1) yields for a truthy web_pages
Elements(web_pages) ==
  CASE web_pages.t = "list" -> web_pages.v
    [] web_pages.t = "str" -> [k \in 1..Len(web_pages.v) |-> Str(<<web_pages.v[k]>>)]
    [] OTHER -> <<>>

\* lines 97-106: the header, the loop and the join
FormatPages(query, web_pages) ==
  IF web_pages.t \notin {"list", "str", "obj"} THEN Raise(NotIterable(web_pages))
  ELSE IF web_pages.t = "obj"
    THEN Raise(AttributeError(Str(<<>>), "get"))
  ELSE LET elems == Elements(web_pages)
           blocks == [k \in 1..Len(elems) |-> PageBlock(k, elems[k])]
           bad == {k \in 1..Len(elems) : blocks[k].kind = "raise"}
       IN IF bad # {}
          THEN blocks[CHOOSE k \in bad : \A j \in bad : k <= j]
          ELSE Return(Join(<<HeaderPrefix \o query \o HeaderSuffix>>
                           \o [k \in 1..Len(elems) |-> blocks[k].value], <<NL>>))

\* lines 84-106
Format(query, response) ==
  LET parsed == Json(response.body) IN
  IF parsed.kind = "raise" THEN parsed
  ELSE LET response_data == parsed.value IN
    IF response_data.t # "obj" THEN Raise(AttributeError(response_data, "get"))
    ELSE IF ~CodeOk(response_data)
      THEN Return(ProviderErrorPrefix \o Fmt(Get(response_data, "msg", Str(UnknownMsg))))
    ELSE LET wp == WebPages(response_data) IN
      IF wp.kind = "raise" THEN wp
      ELSE IF ~Truthy(wp.value) THEN Return(NoResultsPrefix \o query \o NoResultsSuffix)
      ELSE FormatPages(query, wp.value)

(***************************************************************************)
(* The except clauses: lines 108-114.                                      *)
(***************************************************************************)
\* a narrower except clause: except httpx.HTTPError
CatchHTTPErrorOnly == "HTTPError"

\* line 112: the class the last except clause names
CatchAll == "Exception"

\* the HTTP-error branch returning what line 110 logs, the body included
HandleWithBody(e) ==
  IF IsSubclass(e.cls, "HTTPStatusError")
    THEN Return(HttpErrorPrefix \o IntToStr(e.response.status) \o e.response.body.text)
  ELSE IF IsSubclass(e.cls, CatchAll) THEN Return(UnknownErrorPrefix \o e.text)
  ELSE Raise(e)

\* the last branch returning a fixed string, without the text of the exception
HandleWithoutDetail(e) ==
  IF IsSubclass(e.cls, "HTTPStatusError")
    THEN Return(HttpErrorPrefix \o IntToStr(e.response.status) \o HttpErrorSuffix)
  ELSE IF IsSubclass(e.cls, CatchAll) THEN Return(UnknownErrorPrefix)
  ELSE Raise(e)

\* lines 108-114
Handle(e) ==
  IF IsSubclass(e.cls, "HTTPStatusError")
    THEN Return(HttpErrorPrefix \o IntToStr(e.response.status) \o HttpErrorSuffix)
  ELSE IF IsSubclass(e.cls, CatchAll) THEN Return(UnknownErrorPrefix \o e.text)
  ELSE Raise(e)

\* what the try statement of lines 79-114 ends with, given what its body ended with
Try(r) == IF r.kind = "raise" THEN Handle(r.exc) ELSE r

(***************************************************************************)
(* The environment: configurations, queries, provider and transport        *)
(* outcomes.                                                               *)
(***************************************************************************)
\* lines 25-41: the configurations the host can load (SEARCH_RESULT_COUNT is
\* validated to 1..10 by ge/le)
Configs ==
  [API_URL : {<<"https://api.bochaai.com/v1">>, <<"https://api.bochaai.com/v1", "/">>},
   API_KEY : {<<>>, <<"sk-", "k">>},
   SEARCH_RESULT_COUNT : {5}]

Queries == {<<>>, <<"q">>, <<"q", " ", "r">>}

\* a page object; Absent marks a missing key
Page(name, url, summary, snippet) ==
  MkObj([name |-> name, url |-> url, summary |-> summary, snippet |-> snippet])

\* pages whose present fields are all strings
TypedPages ==
  {Page(Str(<<"a">>), Str(<<"u">>), Str(<<" ", "s", " ">>), Str(<<"n">>)),
   Page(Str(<<"b">>), Str(<<"v">>), Str(<<"s">>), Absent),
   Page(Absent, Str(<<"u">>), Str(<<"s">>), Absent),
   Page(Str(<<"a">>), Absent, Str(<<"s">>), Absent),
   Page(Absent, Absent, Absent, Absent),
   Page(Str(<<"a">>), Str(<<"u">>), Absent, Str(<<"n", " ">>)),
   Page(Str(<<"a">>), Str(<<"u">>), Absent, Str(<<>>)),
   Page(Str(<<"a">>), Str(<<"u">>), Str(<<>>), Str(<<" ", "n">>)),
   Page(Str(<<"a">>), Str(<<"u">>), Str(<<>>), Absent),
   Page(Str(<<"a">>), Str(<<"u">>), Str(<<" ">>), Str(<<"n">>))}

\* elements of the list that are not pages of the documented shape
UntypedPages ==
  {Page(Str(<<"a">>), Str(<<"u">>), None, Str(<<"n">>)),
   Page(Str(<<"a">>), Str(<<"u">>), Absent, None),
   Page(Str(<<"a">>), Str(<<"u">>), Num(7), Absent),
   Str(<<"x">>)}

PageVals == TypedPages \cup UntypedPages

PageLists == UNION {[1..n -> PageVals] : n \in 0..MaxPages}

\* what the "value" key can hold
ValueVals == {None, Num(7), Str(<<"x">>)} \cup {List(ps) : ps \in PageLists}

\* what the "webPages" key can hold
WebPagesVals ==
  {None, Obj(<<>>)} \cup {MkObj([value |-> v]) : v \in ValueVals}

\* what the "data" key can hold; Absent marks a missing key
DataVals ==
  {Absent, None, Str(<<"x">>), Obj(<<>>)} \cup {MkObj([webPages |-> w]) : w \in WebPagesVals}

Doc(code, msg, data) == MkObj([code |-> code, msg |-> msg, data |-> data])

SomePages ==
  List(<<Page(Str(<<"a">>), Str(<<"u">>), Str(<<"s">>), Absent)>>)

\* parsed bodies with code 200
Docs200 == {Doc(Num(200), Absent, d) : d \in DataVals}

\* parsed bodies whose code is not 200
DocsOther ==
  {Doc(c, m, d) :
     c \in {Absent, None, Num(401), Str(<<"2", "0", "0">>)},
     m \in {Absent, Str(<<>>), Str(<<"b", "a", "d", " ", "k", "e", "y">>)},
     d \in {Absent, None, MkObj([webPages |-> MkObj([value |-> SomePages])])}}

\* parsed bodies that are no JSON object
DocsNoObject == {None, List(<<>>), Str(<<"o", "k">>)}

\* a response body: its raw text, and the document it parses to when it is JSON
JsonBody(doc) == [text |-> <<"<json text>">>, valid |-> TRUE, doc |-> doc]
BadBody(text) == [text |-> text, valid |-> FALSE, doc |-> None]

OkBodies ==
  {JsonBody(d) : d \in Docs200 \cup DocsOther \cup DocsNoObject}
  \cup {BadBody(<<"<html>">>), BadBody(<<>>)}

\* bodies the provider sends with an error status
ErrorBodies ==
  {BadBody(<<"Unauthorized">>), BadBody(<<>>),
   JsonBody(Doc(Num(200), Absent, MkObj([webPages |-> MkObj([value |-> SomePages])]))),
   JsonBody(Doc(Num(401), Str(<<"b", "a", "d">>), Absent))}

ErrorStatuses == {401, 404, 500, 503}

Response(status, body) == [status |-> status, body |-> body]

\* what the transport raises instead of answering
TransportErrors ==
  {Exc("ReadTimeout", <<>>),
   Exc("ConnectError", <<"All connection attempts failed">>)}

Answered(response) == [kind |-> "response", response |-> response]
Failed(e) == [kind |-> "error", exc |-> e]
NoOutcome == [kind |-> "none"]

\* every outcome of the one POST
Outcomes ==
  {Failed(e) : e \in TransportErrors}
  \cup {Answered(Response(200, b)) : b \in OkBodies}
  \cup {Answered(Response(s, b)) : s \in ErrorStatuses, b \in ErrorBodies}

\* the outcomes of the concurrent specification: one of each kind
OutcomesConc ==
  {Failed(Exc("ReadTimeout", <<>>)),
   Answered(Response(500, BadBody(<<"Unauthorized">>))),
   Answered(Response(200, JsonBody(Doc(Num(401), Absent, Absent)))),
   Answered(Response(200, JsonBody(Doc(Num(200), Absent, Absent)))),
   Answered(Response(200, JsonBody(
     Doc(Num(200), Absent, MkObj([webPages |-> MkObj([value |-> SomePages])])))))}

(***************************************************************************)
(* State.                                                                  *)
(***************************************************************************)
VARIABLES
  config,    \* line 45: the configuration instance all invocations share
  pc,        \* where each invocation of search_ai stands
  arg,       \* the query the host passed to each invocation
  query,     \* line 49: the parameter `query` of each frame
  request,   \* lines 66-75: api_url, headers and payload of each frame
  client,    \* line 80: the frame's httpx.AsyncClient: "none", "open", "closed"
  acquired,  \* how many clients the invocation has opened
  posted,    \* how many POSTs the invocation has issued
  outcome,   \* what the transport answered to the invocation's POST
  response,  \* line 81: the local `response` of each frame
  result     \* what the invocation handed to the host: a string or an exception

vars ==
  <<config, pc, arg, query, request, client, acquired, posted, outcome, response, result>>

Invocations == DOMAIN pc

NoRequest == [url |-> <<>>, headers |-> <<>>, json |-> <<>>]
NoResponse == [status |-> 0, body |-> BadBody(<<>>)]

\* lines 66-75
BuildRequest(cfg, q) ==
  [url |-> RStrip(cfg.API_URL, {"/"}) \o WebSearchPath,
   headers |-> [Authorization |-> <<"Bearer ">> \o cfg.API_KEY,
                ContentType |-> <<"application/json">>],
   json |-> [query |-> q, summary |-> TRUE, count |-> cfg.SEARCH_RESULT_COUNT]]

\* a test that takes only an unset key for missing: config.API_KEY is None
MissingKeyIsNone(cfg) == FALSE

\* line 61: not config.API_KEY
MissingKey(cfg) == cfg.API_KEY = <<>>

\* the query kept in one module-level variable that all frames read
BindShared(f, i, q) == [j \in DOMAIN f |-> q]

\* line 49: the host's argument becomes the local `query` of frame i
Bind(f, i, q) == [f EXCEPT ![i] = q]

\* a client that is never closed: client = httpx.AsyncClient() without `async with`
ReleaseNever(c, i) == c

\* line 80, leaving the `async with` block: the client of frame i is closed
Release(c, i) == [c EXCEPT ![i] = "closed"]

\* line 82: raise_for_status() raises for these statuses
IsErrorStatus(status) == status >= 400 /\ status <= 599

HTTPStatusError(resp) ==
  [cls |-> "HTTPStatusError", text |-> <<"<status error>">>, response |-> resp]

\* the invocation ends: the host receives r
Finish(i, r) ==
  /\ result' = [result EXCEPT ![i] = r]
  /\ pc' = [pc EXCEPT ![i] = IF r.kind = "return" THEN "returned" ELSE "raised"]

InitOf(n) ==
  /\ config \in Configs
  /\ pc = [i \in 1..n |-> "idle"]
  /\ arg = [i \in 1..n |-> <<>>]
  /\ query = [i \in 1..n |-> <<>>]
  /\ request = [i \in 1..n |-> NoRequest]
  /\ client = [i \in 1..n |-> "none"]
  /\ acquired = [i \in 1..n |-> 0]
  /\ posted = [i \in 1..n |-> 0]
  /\ outcome = [i \in 1..n |-> NoOutcome]
  /\ response = [i \in 1..n |-> NoResponse]
  /\ result = [i \in 1..n |-> NoResult]

Init == InitOf(1)

InitConc == InitOf(NumInv)

(***************************************************************************)
(* search_ai, cut at its suspension points.                                *)
(***************************************************************************)
\* lines 49-77: the host invokes search_ai(query = q) in frame i
Call(i, q) ==
  /\ i \in Invocations
  /\ pc[i] \in {"idle", "returned", "raised"}
  /\ arg' = [arg EXCEPT ![i] = q]
  /\ query' = Bind(query, i, q)
  /\ client' = [client EXCEPT ![i] = "none"]
  /\ acquired' = [acquired EXCEPT ![i] = 0]
  /\ posted' = [posted EXCEPT ![i] = 0]
  /\ outcome' = [outcome EXCEPT ![i] = NoOutcome]
  /\ response' = [response EXCEPT ![i] = NoResponse]
  /\ IF MissingKey(config)
       THEN /\ request' = [request EXCEPT ![i] = NoRequest]
            /\ Finish(i, Return(MsgConfigIncomplete))
       ELSE /\ request' = [request EXCEPT ![i] = BuildRequest(config, q)]
            /\ result' = [result EXCEPT ![i] = NoResult]
            /\ pc' = [pc EXCEPT ![i] = "acquire"]
  /\ UNCHANGED config

\* line 80: async with httpx.AsyncClient(timeout=30.0) as client
Acquire(i) ==
  /\ i \in Invocations
  /\ pc[i] = "acquire"
  /\ client' = [client EXCEPT ![i] = "open"]
  /\ acquired' = [acquired EXCEPT ![i] = @ + 1]
  /\ pc' = [pc EXCEPT ![i] = "post"]
  /\ UNCHANGED <<config, arg, query, request, posted, outcome, response, result>>

\* line 81: client.post(...) is issued and the coroutine suspends
Post(i) ==
  /\ i \in Invocations
  /\ pc[i] = "post"
  /\ posted' = [posted EXCEPT ![i] = @ + 1]
  /\ pc' = [pc EXCEPT ![i] = "await"]
  /\ UNCHANGED <<config, arg, query, request, client, acquired, outcome, response, result>>

\* lines 81-82 and the exit of the `async with` block: the transport answers o
Respond(i, o) ==
  /\ i \in Invocations
  /\ pc[i] = "await"
  /\ outcome' = [outcome EXCEPT ![i] = o]
  /\ client' = Release(client, i)
  /\ IF o.kind = "error"
       THEN /\ Finish(i, Handle(o.exc))
            /\ UNCHANGED response
       ELSE /\ response' = [response EXCEPT ![i] = o.response]
            /\ IF IsErrorStatus(o.response.status)
                 THEN Finish(i, Handle(HTTPStatusError(o.response)))
                 ELSE /\ pc' = [pc EXCEPT ![i] = "parse"]
                      /\ UNCHANGED result
  /\ UNCHANGED <<config, arg, query, request, acquired, posted>>

\* lines 84-106 and 112-114: parse, format, return
Process(i) ==
  /\ i \in Invocations
  /\ pc[i] = "parse"
  /\ Finish(i, Try(Format(query[i], response[i])))
  /\ UNCHANGED <<config, arg, query, request, client, acquired, posted, outcome, response>>

Next ==
  \/ \E i \in 1..NumInv, q \in Queries : Call(i, q)
  \/ \E i \in 1..NumInv : Acquire(i)
  \/ \E i \in 1..NumInv : Post(i)
  \/ \E i \in 1..NumInv, o \in Outcomes : Respond(i, o)
  \/ \E i \in 1..NumInv : Process(i)

NextConc ==
  \/ \E i \in 1..NumInv, q \in Queries : Call(i, q)
  \/ \E i \in 1..NumInv : Acquire(i)
  \/ \E i \in 1..NumInv : Post(i)
  \/ \E i \in 1..NumInv, o \in OutcomesConc : Respond(i, o)
  \/ \E i \in 1..NumInv : Process(i)

Spec == Init /\ [][Next]_vars

SpecConc == InitConc /\ [][NextConc]_vars

(***************************************************************************)
(* Fairness: the event loop resumes a coroutine that can run, and the      *)
(* transport answers or fails within the 30 s timeout of line 80.  The     *)
(* host is not obliged to invoke search_ai again.                          *)
(*                                                                         *)
(* Advance(i) is the step in which invocation i leaves its place.  It is   *)
(* enabled exactly when i is between line 79 and its return, and there the *)
(* action of Next for pc[i] is enabled too, its only guard being pc[i]; a  *)
(* step of Next that is an Advance(i) step is that action.                 *)
(***************************************************************************)
InFlight(i) == i \in Invocations /\ pc[i] \in {"acquire", "post", "await", "parse"}

Advance(i) ==
  /\ InFlight(i)
  /\ pc' \in {[pc EXCEPT ![i] = to] :
                to \in {"post", "await", "parse", "returned", "raised"} \ {pc[i]}}

FairSpec == Spec /\ \A i \in 1..NumInv : WF_pc(Advance(i))

(***************************************************************************)
(* Reading a returned string back, and the cases the claims speak of.      *)
(***************************************************************************)
\* the position of the first tok in s, 0 when there is none
IndexOf(s, tok) ==
  IF \E k \in 1..Len(s) : s[k] = tok
    THEN CHOOSE k \in 1..Len(s) : s[k] = tok /\ \A j \in 1..(k - 1) : s[j] # tok
    ELSE 0

Count(s, tok) == Cardinality({k \in 1..Len(s) : s[k] = tok})

RECURSIVE SplitOn(_, _)
SplitOn(s, tok) ==
  LET k == IndexOf(s, tok) IN
  IF k = 0 THEN <<s>>
  ELSE <<SubSeq(s, 1, k - 1)>> \o SplitOn(SubSeq(s, k + 1, Len(s)), tok)

IsNonEmpty(piece) == piece # <<>>

\* the non-empty pieces of a text between its newline tokens: the header, then one
\* piece per block
Pieces(text) == SelectSeq(SplitOn(text, NL), IsNonEmpty)

\* a piece that has the shape "<index>. <title>\n   link: <url>\n   summary: <text>"
IsBlock(b) ==
  /\ Count(b, IndexDot) = 1 /\ Count(b, LinkLabel) = 1 /\ Count(b, SummaryLabel) = 1
  /\ IndexOf(b, IndexDot) < IndexOf(b, LinkLabel)
  /\ IndexOf(b, LinkLabel) < IndexOf(b, SummaryLabel)

BlockIndex(b) == SubSeq(b, 1, IndexOf(b, IndexDot) - 1)
BlockTitle(b) == SubSeq(b, IndexOf(b, IndexDot) + 1, IndexOf(b, LinkLabel) - 1)
BlockUrl(b) == SubSeq(b, IndexOf(b, LinkLabel) + 1, IndexOf(b, SummaryLabel) - 1)
BlockSummary(b) == SubSeq(b, IndexOf(b, SummaryLabel) + 1, Len(b))

RECURSIVE DigitsValue(_)
\* the number a sequence of decimal digits writes, -1 when it is no such sequence
DigitsValue(d) ==
  IF d = <<>> \/ \E k \in 1..Len(d) : \A n \in 1..10 : Digit[n] # d[k] THEN -1
  ELSE IF Len(d) = 1 THEN (CHOOSE n \in 1..10 : Digit[n] = d[1]) - 1
  ELSE 10 * DigitsValue(SubSeq(d, 1, Len(d) - 1))
       + (CHOOSE n \in 1..10 : Digit[n] = d[Len(d)]) - 1

\* the invocation is over
Done(i) == pc[i] \in {"returned", "raised"}

\* the POST of invocation i was answered with a 2xx status
Answered2xx(i) ==
  /\ outcome[i].kind = "response"
  /\ outcome[i].response.status \in 200..299

\* ... and the body is a JSON object
AnsweredObject(i) ==
  /\ Answered2xx(i)
  /\ outcome[i].response.body.valid
  /\ outcome[i].response.body.doc.t = "obj"

DocOf(i) == outcome[i].response.body.doc

\* ... whose code is 200
Answered200(i) ==
  /\ AnsweredObject(i)
  /\ HasKey(DocOf(i), "code")
  /\ DocOf(i).v["code"] = Num(200)

\* the body of invocation i holds a list under data.webPages.value
HasPageList(i) ==
  /\ Answered200(i)
  /\ HasKey(DocOf(i), "data")
  /\ HasKey(DocOf(i).v["data"], "webPages")
  /\ HasKey(DocOf(i).v["data"].v["webPages"], "value")
  /\ DocOf(i).v["data"].v["webPages"].v["value"].t = "list"

PagesOf(i) == DocOf(i).v["data"].v["webPages"].v["value"].v

\* a page of the documented shape: an object whose present fields are strings
IsPage(p) == p.t = "obj" /\ \A k \in DOMAIN p.v : p.v[k].t = "str"

\* a non-empty list of pages came back with code 200
GotPages(i) ==
  /\ HasPageList(i)
  /\ PagesOf(i) # <<>>
  /\ \A k \in 1..Len(PagesOf(i)) : IsPage(PagesOf(i)[k])

\* the strings of the error branches all start with one of these tokens
ErrorPrefixes ==
  {MsgConfigIncomplete[1], ProviderErrorPrefix[1], HttpErrorPrefix[1], UnknownErrorPrefix[1]}

IsErrorString(r) == r.kind = "return" /\ r.value # <<>> /\ r.value[1] \in ErrorPrefixes

(***************************************************************************)
(* C1.                                                                     *)
(***************************************************************************)
NeverRaises == \A i \in Invocations : pc[i] # "raised" /\ result[i].kind # "raise"

ReturnedString(i) == i \in Invocations /\ pc[i] = "returned" /\ result[i].kind = "return"

\* C1: an invocation never ends by raising to the host, whatever the configuration,
\* the query and the outcome of the request, and every invocation that has started
\* its request ends in the state "returned" with a string as its result.
C1_AlwaysReturnsString ==
  /\ []NeverRaises
  /\ \A i \in 1..NumInv : InFlight(i) ~> ReturnedString(i)

\* an invocation has returned a string after its loop over the pages raised
C1_Witness ==
  \E i \in Invocations :
    /\ pc[i] = "returned"
    /\ HasPageList(i)
    /\ \E k \in 1..Len(PagesOf(i)) : ~IsPage(PagesOf(i)[k])
    /\ result[i].kind = "return"

(***************************************************************************)
(* C2.                                                                     *)
(***************************************************************************)
\* C2: with an empty API_KEY every invocation, for every query, returns exactly the
\* configuration-incomplete message, having opened no client and issued no POST.
C2_NoKeyNoRequest ==
  \A i \in Invocations :
    (config.API_KEY = <<>> /\ pc[i] # "idle") =>
      /\ pc[i] = "returned"
      /\ result[i] = Return(MsgConfigIncomplete)
      /\ acquired[i] = 0
      /\ posted[i] = 0
      /\ client[i] = "none"

\* an invocation with a non-empty query has returned under an empty API_KEY
C2_Witness ==
  \E i \in Invocations :
    config.API_KEY = <<>> /\ pc[i] = "returned" /\ arg[i] # <<>>

(***************************************************************************)
(* C3.                                                                     *)
(***************************************************************************)
\* the texts a block may show as the summary of a page
SummaryTexts(page) ==
  {Strip(page.v[k].v) : k \in DOMAIN page.v \cap {"summary", "snippet"}} \cup {NoSummary}

\* block b carries the fields of this page
BuiltFrom(b, page) ==
  /\ HasKey(page, "name") => BlockTitle(b) = page.v["name"].v
  /\ HasKey(page, "url") => BlockUrl(b) = page.v["url"].v
  /\ BlockSummary(b) \in SummaryTexts(page)

\* C3: for a 2xx response with code 200 and a non-empty list of N pages the returned
\* string is the header line with the query, followed by exactly N blocks; block k
\* carries the index k and the fields of the k-th page of the list.
C3_BlocksInOrder ==
  \A i \in Invocations :
    (Done(i) /\ GotPages(i)) =>
      /\ result[i].kind = "return"
      /\ LET ps == Pieces(result[i].value)
             N == Len(PagesOf(i))
         IN /\ Len(ps) = N + 1
            /\ ps[1] = HeaderPrefix \o arg[i] \o <<HeaderSuffix[1]>>
            /\ \A k \in 1..N :
                 /\ IsBlock(ps[k + 1])
                 /\ DigitsValue(BlockIndex(ps[k + 1])) = k
                 /\ BuiltFrom(ps[k + 1], PagesOf(i)[k])

\* an invocation has returned for a list of two pages with different names
C3_Witness ==
  \E i \in Invocations :
    /\ pc[i] = "returned" /\ GotPages(i) /\ Len(PagesOf(i)) = 2
    /\ HasKey(PagesOf(i)[1], "name") /\ HasKey(PagesOf(i)[2], "name")
    /\ PagesOf(i)[1].v["name"] # PagesOf(i)[2].v["name"]
    /\ arg[i] # <<>>

(***************************************************************************)
(* C4.                                                                     *)
(***************************************************************************)
\* the summary text as the claim words it: summary if present, else snippet if
\* present, else the placeholder
SummaryIfPresent(page) ==
  IF HasKey(page, "summary") THEN Strip(page.v["summary"].v)
  ELSE IF HasKey(page, "snippet") THEN Strip(page.v["snippet"].v)
  ELSE NoSummary

\* the summary text with an empty summary counted as missing
SummaryIfNonEmpty(page) ==
  IF HasKey(page, "summary") /\ page.v["summary"].v # <<>>
    THEN Strip(page.v["summary"].v)
  ELSE IF HasKey(page, "snippet") THEN Strip(page.v["snippet"].v)
  ELSE NoSummary

\* every block shows name or "no title", url or "no link", and as its summary the
\* text of SummaryIfPresent (asClaimed) or of SummaryIfNonEmpty
FieldsShown(asClaimed) ==
  \A i \in Invocations :
    (Done(i) /\ GotPages(i)) =>
      /\ result[i].kind = "return"
      /\ ~IsErrorString(result[i])
      /\ LET ps == Pieces(result[i].value) IN
         /\ Len(ps) = Len(PagesOf(i)) + 1
         /\ \A k \in 1..Len(PagesOf(i)) :
              LET page == PagesOf(i)[k]
                  b == ps[k + 1]
              IN /\ IsBlock(b)
                 /\ BlockTitle(b) = IF HasKey(page, "name") THEN page.v["name"].v ELSE NoTitle
                 /\ BlockUrl(b) = IF HasKey(page, "url") THEN page.v["url"].v ELSE NoLink
                 /\ BlockSummary(b) =
                      IF asClaimed THEN SummaryIfPresent(page) ELSE SummaryIfNonEmpty(page)

\* C4 as claimed: the block shows the name or "no title", the url or "no link", and as
\* summary text the trimmed summary if present, else the trimmed snippet if present,
\* else "no summary"; missing fields never make the result an error string.
C4_AsClaimed == FieldsShown(TRUE)

\* C4 as amended: the same, with the summary chosen only when it is present and not
\* empty; a page whose summary is missing or empty shows its trimmed snippet if
\* present and "no summary" otherwise.
C4_FallbackFields == FieldsShown(FALSE)

\* an invocation has returned for a page with an empty summary and a snippet, and
\* for a page with none of the four fields
C4_Witness ==
  \E i \in Invocations :
    /\ pc[i] = "returned" /\ GotPages(i)
    /\ \E k \in 1..Len(PagesOf(i)) :
         /\ HasKey(PagesOf(i)[k], "summary")
         /\ PagesOf(i)[k].v["summary"].v = <<>>
         /\ HasKey(PagesOf(i)[k], "snippet")
    /\ \E k \in 1..Len(PagesOf(i)) : DOMAIN PagesOf(i)[k].v = {}

(***************************************************************************)
(* C5.                                                                     *)
(***************************************************************************)
\* code 200 with an empty page list, or with data, webPages or value missing
EmptyOrAbsent(i) ==
  /\ Answered200(i)
  /\ \/ ~HasKey(DocOf(i), "data")
     \/ /\ DocOf(i).v["data"].t = "obj"
        /\ ~HasKey(DocOf(i).v["data"], "webPages")
     \/ /\ HasKey(DocOf(i).v["data"], "webPages")
        /\ DocOf(i).v["data"].v["webPages"].t = "obj"
        /\ ~HasKey(DocOf(i).v["data"].v["webPages"], "value")
     \/ /\ HasPageList(i)
        /\ PagesOf(i) = <<>>

\* C5: for a 2xx response with code 200 whose page list is empty, or in which the
\* key data, webPages or value is missing, the invocation returns exactly the
\* no-results message with the query, which holds no block and is no error string.
C5_NoResults ==
  \A i \in Invocations :
    (Done(i) /\ EmptyOrAbsent(i)) =>
      /\ result[i] = Return(NoResultsPrefix \o arg[i] \o NoResultsSuffix)
      /\ Count(result[i].value, LinkLabel) = 0
      /\ ~IsErrorString(result[i])

\* an invocation has returned for a code-200 body without the key data
C5_Witness ==
  \E i \in Invocations :
    pc[i] = "returned" /\ Answered200(i) /\ ~HasKey(DocOf(i), "data") /\ arg[i] # <<>>

(***************************************************************************)
(* C6.                                                                     *)
(***************************************************************************)
\* a 2xx response whose JSON object has no code, or a code other than 200
CodeNot200(i) ==
  /\ AnsweredObject(i)
  /\ ~(HasKey(DocOf(i), "code") /\ DocOf(i).v["code"] = Num(200))

\* C6: for a 2xx response whose code is missing or not 200 the invocation returns the
\* provider-error prefix followed by msg when present and by "unknown error" when
\* msg is missing, whatever data holds; the string holds no block.
C6_ProviderError ==
  \A i \in Invocations :
    (Done(i) /\ CodeNot200(i)) =>
      /\ result[i] =
           Return(ProviderErrorPrefix \o
                  (IF HasKey(DocOf(i), "msg") THEN DocOf(i).v["msg"].v ELSE UnknownMsg))
      /\ Count(result[i].value, LinkLabel) = 0

\* an invocation has returned for a body with no code, no msg and a page list
C6_Witness ==
  \E i \in Invocations :
    /\ pc[i] = "returned" /\ CodeNot200(i)
    /\ ~HasKey(DocOf(i), "code") /\ ~HasKey(DocOf(i), "msg")
    /\ HasKey(DocOf(i), "data") /\ DocOf(i).v["data"].t = "obj"

(***************************************************************************)
(* C7.                                                                     *)
(***************************************************************************)
\* the POST of invocation i was answered with a 4xx or 5xx status
AnsweredError(i) ==
  /\ outcome[i].kind = "response"
  /\ outcome[i].response.status \in 400..599

\* C7: for a response with a 4xx or 5xx status, whatever its body, the invocation
\* returns the HTTP-error string: its fixed prefix, the decimal digits of the
\* status, its fixed suffix; no token of the raw body is in the string, and the
\* invocation never reaches the parsing of the body.
C7_HttpError ==
  \A i \in Invocations :
    /\ pc[i] = "parse" => ~AnsweredError(i)
    /\ AnsweredError(i) =>
         /\ pc[i] = "returned"
         /\ result[i].kind = "return"
         /\ LET v == result[i].value
                text == outcome[i].response.body.text
            IN /\ Len(v) >= 3
               /\ v[1] = HttpErrorPrefix[1]
               /\ v[Len(v)] = HttpErrorSuffix[1]
               /\ DigitsValue(SubSeq(v, 2, Len(v) - 1)) = outcome[i].response.status
               /\ \A k \in 1..Len(text) : Count(v, text[k]) = 0

\* an invocation has returned for status 500 with a JSON body of code 200 and pages
C7_Witness ==
  \E i \in Invocations :
    /\ pc[i] = "returned" /\ AnsweredError(i)
    /\ outcome[i].response.status = 500
    /\ outcome[i].response.body.valid
    /\ HasKey(outcome[i].response.body.doc, "data")
    /\ outcome[i].response.body.doc.v["code"] = Num(200)

(***************************************************************************)
(* C8.                                                                     *)
(***************************************************************************)
\* the value line 101 picks of a page object, by the rules of `or` and .get
Picked(page) ==
  IF HasKey(page, "summary") /\ Truthy(page.v["summary"]) THEN page.v["summary"]
  ELSE IF HasKey(page, "snippet") THEN page.v["snippet"]
  ELSE Str(NoSummary)

\* a code-200 object whose data is not of the documented shape: data or webPages
\* is no object, value is neither falsy nor a list, or an element of the list is
\* no object or has no string to show as its summary
BadShape(d) ==
  \/ HasKey(d, "data") /\ d.v["data"].t # "obj"
  \/ /\ HasKey(d, "data") /\ HasKey(d.v["data"], "webPages")
     /\ d.v["data"].v["webPages"].t # "obj"
  \/ /\ HasKey(d, "data") /\ HasKey(d.v["data"], "webPages")
     /\ HasKey(d.v["data"].v["webPages"], "value")
     /\ LET value == d.v["data"].v["webPages"].v["value"] IN
        /\ Truthy(value)
        /\ \/ value.t # "list"
           \/ \E k \in 1..Len(value.v) :
                value.v[k].t # "obj" \/ Picked(value.v[k]).t # "str"

\* the failures of the last except clause
TransportFailure(i) == outcome[i].kind = "error"
NotJson(i) == Answered2xx(i) /\ ~outcome[i].response.body.valid
NotObject(i) ==
  /\ Answered2xx(i)
  /\ outcome[i].response.body.valid
  /\ outcome[i].response.body.doc.t # "obj"
ShapeFailure(i) == Answered200(i) /\ BadShape(DocOf(i))

\* C8: a timeout, a connection failure, a body that is no JSON and a parsed body of
\* unexpected shape all end in the one string that starts with the unknown-error
\* prefix; after the prefix comes the text of the failure: the text of the
\* transport's exception, and for the other failures a text that is not empty.
C8_UnknownError ==
  \A i \in Invocations :
    (Done(i) /\ (TransportFailure(i) \/ NotJson(i) \/ NotObject(i) \/ ShapeFailure(i))) =>
      /\ result[i].kind = "return"
      /\ result[i].value # <<>>
      /\ result[i].value[1] = UnknownErrorPrefix[1]
      /\ TransportFailure(i) => result[i].value = UnknownErrorPrefix \o outcome[i].exc.text
      /\ ~TransportFailure(i) => Len(result[i].value) > 1

\* an invocation has returned after a body of code 200 whose data is null
C8_Witness ==
  \E i \in Invocations :
    /\ pc[i] = "returned" /\ ShapeFailure(i)
    /\ DocOf(i).v["data"] = None

(***************************************************************************)
(* C9.                                                                     *)
(***************************************************************************)
\* C9: an invocation opens at most one client and issues at most one POST; a client
\* is open only while its invocation is at the POST; an invocation with a non-empty
\* API_KEY that has ended has opened exactly one client, issued exactly one POST and
\* closed its client, whether the transport answered, answered with an error status
\* or raised.
C9_ClientScoped ==
  \A i \in Invocations :
    /\ acquired[i] <= 1
    /\ posted[i] <= 1
    /\ client[i] = "open" => pc[i] \in {"post", "await"}
    /\ pc[i] \in {"post", "await"} => client[i] = "open"
    /\ (Done(i) /\ config.API_KEY # <<>>) =>
         /\ acquired[i] = 1
         /\ posted[i] = 1
         /\ client[i] = "closed"

\* one invocation has ended after a timeout with its client closed while another
\* holds its own client open
C9_Witness ==
  \E i, j \in Invocations :
    /\ i # j
    /\ pc[i] = "returned" /\ outcome[i].kind = "error" /\ client[i] = "closed"
    /\ pc[j] = "await" /\ client[j] = "open"

(***************************************************************************)
(* C10.                                                                    *)
(***************************************************************************)
\* everything invocation i holds
Frame(i) ==
  <<pc[i], arg[i], query[i], request[i], client[i], acquired[i], posted[i],
    outcome[i], response[i], result[i]>>

\* two ended invocations with the same query and the same outcome of their request
\* hold the same result
SameInputsSameResult ==
  \A i, j \in Invocations :
    (Done(i) /\ Done(j) /\ arg[i] = arg[j] /\ outcome[i] = outcome[j]) =>
      result[i] = result[j]

\* a step changes what at most one invocation holds, and never the configuration
StepIsLocal ==
  /\ config' = config
  /\ \A i, j \in Invocations : (i # j /\ Frame(i)' # Frame(i)) => Frame(j)' = Frame(j)

\* C10: under one configuration the returned string depends only on the query and
\* the outcome of the invocation's own request, however the invocations interleave;
\* no step writes the configuration or what another invocation holds.
C10_Deterministic == []SameInputsSameResult /\ [][StepIsLocal]_vars

\* two invocations have returned the formatted pages for the same query and outcome
C10_Witness ==
  \E i, j \in Invocations :
    /\ i # j
    /\ pc[i] = "returned" /\ pc[j] = "returned"
    /\ arg[i] = arg[j] /\ arg[i] # <<>>
    /\ outcome[i] = outcome[j]
    /\ GotPages(i)

====
